---- MODULE Spec2Model ----
(***************************************************************************)
(* SIL-ML: the 16-layer linear codec (LinearEncoder), the transform        *)
(* recipes (TransformPipeline) and the orchestrator (MlPipeline) of        *)
(* sil-ml/examples/sil_ml_python.py, over the SilState and ByteSil values  *)
(* of the native module _sil_core.                                         *)
(*                                                                         *)
(* Real numbers are fixed-point integers in millionths ("micro"): the      *)
(* feature 0.5 is 500000.  np.tanh and np.arctanh are tabulated at the     *)
(* arguments the model feeds them, each entry being the float result       *)
(* rounded to the nearest millionth.                                       *)
(***************************************************************************)
EXTENDS Integers, Sequences, FiniteSets, TLC

VARIABLES config, input, heap, last, threads

vars == <<config, input, heap, last, threads>>

(***************************************************************************)
(* Program constants and model bounds                                      *)
(***************************************************************************)
\* one unit of a real number, in millionths
Micro == 1000 * 1000

\* range(min(16, len(features))), range(16), layer_idx >= 16
NumLayers == 16

\* np.clip(byte_val, 0, 255)
ByteMax == 255

\* _sil_core.ByteSil.from_u8(128)
NeutralByte == 128

\* np.clip(normalized, -0.999, 0.999), in millionths
ClipLimit == 999000

\* "fidelity_ok": mean_err < 0.01, in millionths
FidelityLimit == 10000

\* longest feature vector handed to the codec
MaxLen == 18

\* most SilState objects a caller holds at once
MaxObjs == 2

Layers == 0 .. (NumLayers - 1)

Bytes == 0 .. ByteMax

Min(a, b) == IF a < b THEN a ELSE b

Abs(a) == IF a < 0 THEN 0 - a ELSE a

\* np.clip(v, lo, hi)
Clip(v, lo, hi) == IF v < lo THEN lo ELSE IF v > hi THEN hi ELSE v

(***************************************************************************)
(* np.tanh on the feature values of the model, and np.arctanh on the      *)
(* clipped normalized value of each of the 256 bytes                       *)
(***************************************************************************)
TanhTable ==
    (-20000000 :> -1000000) @@ (-3000000 :> -995055) @@ (-2500000 :> -986614) @@ (-2000000 :> -964028) @@
    (-1500000 :> -905148) @@ (-1000000 :> -761594) @@ (-500000 :> -462117) @@ (-300000 :> -291313) @@
    (-100000 :> -99668) @@ (0 :> 0) @@ (100000 :> 99668) @@ (300000 :> 291313) @@
    (500000 :> 462117) @@ (1000000 :> 761594) @@ (1500000 :> 905148) @@ (2000000 :> 964028) @@
    (2500000 :> 986614) @@ (3000000 :> 995055) @@ (20000000 :> 1000000)

ArcTanhTable ==
    (-999000 :> -3800201) @@ (-992157 :> -2768667) @@ (-984314 :> -2420121) @@ (-976471 :> -2215408) @@
    (-968628 :> -2069579) @@ (-960785 :> -1956012) @@ (-952942 :> -1862847) @@ (-945099 :> -1783759) @@
    (-937255 :> -1714973) @@ (-929412 :> -1654053) @@ (-921569 :> -1599337) @@ (-913726 :> -1549636) @@
    (-905883 :> -1504077) @@ (-898040 :> -1461994) @@ (-890197 :> -1422870) @@ (-882353 :> -1386294) @@
    (-874510 :> -1351937) @@ (-866667 :> -1319529) @@ (-858824 :> -1288844) @@ (-850981 :> -1259696) @@
    (-843138 :> -1231927) @@ (-835295 :> -1205399) @@ (-827451 :> -1179998) @@ (-819608 :> -1155622) @@
    (-811765 :> -1132182) @@ (-803922 :> -1109602) @@ (-796079 :> -1087813) @@ (-788236 :> -1066754) @@
    (-780393 :> -1046373) @@ (-772550 :> -1026620) @@ (-764706 :> -1007452) @@ (-756863 :> -988829) @@
    (-749020 :> -970718) @@ (-741177 :> -953085) @@ (-733334 :> -935901) @@ (-725491 :> -919140) @@
    (-717648 :> -902776) @@ (-709804 :> -886789) @@ (-701961 :> -871156) @@ (-694118 :> -855858) @@
    (-686275 :> -840879) @@ (-678432 :> -826202) @@ (-670589 :> -811811) @@ (-662746 :> -797693) @@
    (-654902 :> -783834) @@ (-647059 :> -770223) @@ (-639216 :> -756846) @@ (-631373 :> -743695) @@
    (-623530 :> -730759) @@ (-615687 :> -718028) @@ (-607844 :> -705493) @@ (-600000 :> -693147) @@
    (-592157 :> -680981) @@ (-584314 :> -668988) @@ (-576471 :> -657160) @@ (-568628 :> -645492) @@
    (-560785 :> -633977) @@ (-552942 :> -622608) @@ (-545099 :> -611380) @@ (-537255 :> -600289) @@
    (-529412 :> -589327) @@ (-521569 :> -578492) @@ (-513726 :> -567778) @@ (-505883 :> -557180) @@
    (-498040 :> -546695) @@ (-490197 :> -536318) @@ (-482353 :> -526046) @@ (-474510 :> -515875) @@
    (-466667 :> -505800) @@ (-458824 :> -495820) @@ (-450981 :> -485930) @@ (-443138 :> -476128) @@
    (-435295 :> -466410) @@ (-427451 :> -456774) @@ (-419608 :> -447216) @@ (-411765 :> -437734) @@
    (-403922 :> -428326) @@ (-396079 :> -418989) @@ (-388236 :> -409720) @@ (-380393 :> -400518) @@
    (-372550 :> -391380) @@ (-364706 :> -382303) @@ (-356863 :> -373286) @@ (-349020 :> -364327) @@
    (-341177 :> -355423) @@ (-333334 :> -346574) @@ (-325491 :> -337776) @@ (-317648 :> -329028) @@
    (-309804 :> -320328) @@ (-301961 :> -311676) @@ (-294118 :> -303068) @@ (-286275 :> -294503) @@
    (-278432 :> -285981) @@ (-270589 :> -277498) @@ (-262746 :> -269055) @@ (-254902 :> -260648) @@
    (-247059 :> -252278) @@ (-239216 :> -243942) @@ (-231373 :> -235639) @@ (-223530 :> -227368) @@
    (-215687 :> -219127) @@ (-207844 :> -210916) @@ (-200000 :> -202733) @@ (-192157 :> -194576) @@
    (-184314 :> -186444) @@ (-176471 :> -178337) @@ (-168628 :> -170254) @@ (-160785 :> -162192) @@
    (-152942 :> -154151) @@ (-145099 :> -146129) @@ (-137255 :> -138127) @@ (-129412 :> -130142) @@
    (-121569 :> -122173) @@ (-113726 :> -114220) @@ (-105883 :> -106281) @@ (-98040 :> -98355) @@
    (-90197 :> -90442) @@ (-82353 :> -82540) @@ (-74510 :> -74648) @@ (-66667 :> -66766) @@
    (-58824 :> -58892) @@ (-50981 :> -51025) @@ (-43138 :> -43164) @@ (-35295 :> -35309) @@
    (-27451 :> -27458) @@ (-19608 :> -19610) @@ (-11765 :> -11765) @@ (-3922 :> -3922) @@
    (3921 :> 3922) @@ (11764 :> 11765) @@ (19607 :> 19610) @@ (27450 :> 27458) @@
    (35294 :> 35309) @@ (43137 :> 43164) @@ (50980 :> 51025) @@ (58823 :> 58892) @@
    (66666 :> 66766) @@ (74509 :> 74648) @@ (82352 :> 82540) @@ (90196 :> 90442) @@
    (98039 :> 98355) @@ (105882 :> 106281) @@ (113725 :> 114220) @@ (121568 :> 122173) @@
    (129411 :> 130142) @@ (137254 :> 138127) @@ (145098 :> 146129) @@ (152941 :> 154151) @@
    (160784 :> 162192) @@ (168627 :> 170254) @@ (176470 :> 178337) @@ (184313 :> 186444) @@
    (192156 :> 194576) @@ (200000 :> 202733) @@ (207843 :> 210916) @@ (215686 :> 219127) @@
    (223529 :> 227368) @@ (231372 :> 235639) @@ (239215 :> 243942) @@ (247058 :> 252278) @@
    (254901 :> 260648) @@ (262745 :> 269055) @@ (270588 :> 277498) @@ (278431 :> 285981) @@
    (286274 :> 294503) @@ (294117 :> 303068) @@ (301960 :> 311676) @@ (309803 :> 320328) @@
    (317647 :> 329028) @@ (325490 :> 337776) @@ (333333 :> 346574) @@ (341176 :> 355423) @@
    (349019 :> 364327) @@ (356862 :> 373286) @@ (364705 :> 382303) @@ (372549 :> 391380) @@
    (380392 :> 400518) @@ (388235 :> 409720) @@ (396078 :> 418989) @@ (403921 :> 428326) @@
    (411764 :> 437734) @@ (419607 :> 447216) @@ (427450 :> 456774) @@ (435294 :> 466410) @@
    (443137 :> 476128) @@ (450980 :> 485930) @@ (458823 :> 495820) @@ (466666 :> 505800) @@
    (474509 :> 515875) @@ (482352 :> 526046) @@ (490196 :> 536318) @@ (498039 :> 546695) @@
    (505882 :> 557180) @@ (513725 :> 567778) @@ (521568 :> 578492) @@ (529411 :> 589327) @@
    (537254 :> 600289) @@ (545098 :> 611380) @@ (552941 :> 622608) @@ (560784 :> 633977) @@
    (568627 :> 645492) @@ (576470 :> 657160) @@ (584313 :> 668988) @@ (592156 :> 680981) @@
    (600000 :> 693147) @@ (607843 :> 705493) @@ (615686 :> 718028) @@ (623529 :> 730759) @@
    (631372 :> 743695) @@ (639215 :> 756846) @@ (647058 :> 770223) @@ (654901 :> 783834) @@
    (662745 :> 797693) @@ (670588 :> 811811) @@ (678431 :> 826202) @@ (686274 :> 840879) @@
    (694117 :> 855858) @@ (701960 :> 871156) @@ (709803 :> 886789) @@ (717647 :> 902776) @@
    (725490 :> 919140) @@ (733333 :> 935901) @@ (741176 :> 953085) @@ (749019 :> 970718) @@
    (756862 :> 988829) @@ (764705 :> 1007452) @@ (772549 :> 1026620) @@ (780392 :> 1046373) @@
    (788235 :> 1066754) @@ (796078 :> 1087813) @@ (803921 :> 1109602) @@ (811764 :> 1132182) @@
    (819607 :> 1155622) @@ (827450 :> 1179998) @@ (835294 :> 1205399) @@ (843137 :> 1231927) @@
    (850980 :> 1259696) @@ (858823 :> 1288844) @@ (866666 :> 1319529) @@ (874509 :> 1351937) @@
    (882352 :> 1386294) @@ (890196 :> 1422870) @@ (898039 :> 1461994) @@ (905882 :> 1504077) @@
    (913725 :> 1549636) @@ (921568 :> 1599337) @@ (929411 :> 1654053) @@ (937254 :> 1714973) @@
    (945098 :> 1783759) @@ (952941 :> 1862847) @@ (960784 :> 1956012) @@ (968627 :> 2069579) @@
    (976470 :> 2215408) @@ (984313 :> 2420121) @@ (992156 :> 2768667) @@ (999000 :> 3800201)

\* np.tanh on the value decode returns for each byte 0..255 (entry byte + 1),
\* to the millionth, on the side of the byte boundary where the
\* double-precision result falls
TanhOfDecoded ==
    << -999000, -992157, -984314, -976470, -968627, -960785, -952941, -945098,
       -937254, -929412, -921569, -913725, -905882, -898040, -890196, -882352,
       -874509, -866667, -858824, -850980, -843137, -835295, -827450, -819607,
       -811764, -803922, -796079, -788235, -780392, -772550, -764705, -756862,
       -749019, -741176, -733334, -725490, -717647, -709804, -701961, -694117,
       -686275, -678432, -670589, -662746, -654902, -647058, -639215, -631372,
       -623529, -615686, -607844, -600000, -592157, -584314, -576470, -568628,
       -560785, -552942, -545099, -537254, -529411, -521568, -513725, -505882,
       -498039, -490196, -482352, -474509, -466666, -458824, -450980, -443137,
       -435294, -427450, -419607, -411764, -403921, -396079, -388235, -380392,
       -372549, -364705, -356862, -349020, -341176, -333333, -325490, -317647,
       -309803, -301960, -294118, -286274, -278432, -270588, -262745, -254901,
       -247058, -239215, -231372, -223529, -215686, -207843, -200000, -192156,
       -184313, -176470, -168627, -160784, -152941, -145098, -137254, -129411,
       -121568, -113725, -105882, -98039, -90196, -82352, -74509, -66666,
       -58823, -50980, -43137, -35294, -27450, -19607, -11764, -3921,
       3922, 11765, 19608, 27451, 35295, 43138, 50981, 58824,
       66667, 74510, 82353, 90197, 98040, 105883, 113726, 121569,
       129412, 137255, 145099, 152942, 160785, 168628, 176471, 184314,
       192157, 200000, 207844, 215687, 223530, 231373, 239216, 247059,
       254902, 262746, 270589, 278432, 286275, 294118, 301961, 309804,
       317648, 325491, 333334, 341177, 349020, 356863, 364706, 372550,
       380393, 388236, 396079, 403922, 411765, 419608, 427451, 435295,
       443138, 450981, 458824, 466667, 474510, 482353, 490197, 498040,
       505883, 513726, 521569, 529412, 537255, 545099, 552942, 560785,
       568628, 576470, 584314, 592156, 600000, 607844, 615687, 623530,
       631373, 639216, 647059, 654902, 662746, 670589, 678432, 686275,
       694118, 701961, 709804, 717647, 725491, 733334, 741177, 749020,
       756863, 764706, 772550, 780393, 788236, 796079, 803922, 811765,
       819608, 827451, 835295, 843138, 850981, 858824, 866667, 874510,
       882353, 890197, 898040, 905883, 913726, 921569, 929412, 937255,
       945099, 952942, 960785, 968628, 976471, 984314, 992157, 999000 >>

FeatureGrid == DOMAIN TanhTable

Tanh(x) == TanhTable[x]

\* what np.arctanh returns at 1.0 (inf) and, negated, at -1.0 (-inf)
Infinity == 100 * Micro

ArcTanh(y) ==
    IF y >= Micro THEN Infinity
    ELSE IF y <= 0 - Micro THEN 0 - Infinity
    ELSE ArcTanhTable[y]

(***************************************************************************)
(* _sil_core: ByteSil and SilState (native module, modelled from the       *)
(* specification: sections 3, 4.1 and 4.2)                                 *)
(***************************************************************************)
Ok(v) == [ok |-> TRUE, val |-> v, err |-> "none"]

Fail(e) == [ok |-> FALSE, val |-> <<>>, err |-> e]

\* SilState.vacuum(): all 16 slots hold raw byte 0
VacuumState == [i \in Layers |-> 0]

\* SilState.neutral(): all 16 slots hold the midpoint 128
NeutralState == [i \in Layers |-> NeutralByte]

\* mutant: an index past the last slot wraps around
WithLayerWrapping(s, index, value) == Ok([s EXCEPT ![index % NumLayers] = value])

\* state.with_layer(index, value): a new state, or IndexOutOfRange
WithLayer(s, index, value) ==
    IF index \in Layers
    THEN Ok([s EXCEPT ![index] = value])
    ELSE Fail("IndexOutOfRange")

\* state.get_layer(index): the byte of the slot, or IndexOutOfRange
GetLayer(s, index) ==
    IF index \in Layers THEN Ok(s[index]) ELSE Fail("IndexOutOfRange")

\* mutant: pow without saturation
PowUnsaturated(b, n) == NeutralByte + (b - NeutralByte) * n

\* byte.pow(n): saturating amplification of the deviation from the midpoint
Pow(b, n) == Clip(NeutralByte + (b - NeutralByte) * n, 0, ByteMax)

\* byte.mix(other): arithmetic midpoint with rounding
Mix(a, b) == (a + b + 1) \div 2

(***************************************************************************)
(* SemanticCategory and SemanticLayer: the registry of the 16 layers       *)
(***************************************************************************)
\* the members of the SemanticCategory enum, in the order of the class body
Categories ==
    <<"PERCEPTION", "PROCESSING", "INTERACTION", "EMERGENCE", "META">>

\* Python's None
None == <<>>

\* SemanticLayer.LAYERS: index -> (index, name, category)
LAYERS ==
    (0 :> <<0, "Photonic", "PERCEPTION">>) @@
    (1 :> <<1, "Acoustic", "PERCEPTION">>) @@
    (2 :> <<2, "Olfactory", "PERCEPTION">>) @@
    (3 :> <<3, "Gustatory", "PERCEPTION">>) @@
    (4 :> <<4, "Dermic", "PERCEPTION">>) @@
    (5 :> <<5, "Electronic", "PROCESSING">>) @@
    (6 :> <<6, "Psychomotor", "PROCESSING">>) @@
    (7 :> <<7, "Environmental", "PROCESSING">>) @@
    (8 :> <<8, "Cybernetic", "INTERACTION">>) @@
    (9 :> <<9, "Geopolitical", "INTERACTION">>) @@
    (10 :> <<10, "Cosmopolitical", "INTERACTION">>) @@
    (11 :> <<11, "Synergic", "EMERGENCE">>) @@
    (12 :> <<12, "Quantum", "EMERGENCE">>) @@
    (13 :> <<13, "Superposition", "META">>) @@
    (14 :> <<14, "Entanglement", "META">>) @@
    (15 :> <<15, "Collapse", "META">>)

\* the keys of LAYERS in the order the dict literal inserts them
LayerOrder == <<0, 1, 2, 3, 4, 5, 6, 7, 8, 9, 10, 11, 12, 13, 14, 15>>

\* mutant: dict.get with the last layer as its default
SemanticGetDefault(layer_idx) ==
    IF layer_idx \in DOMAIN LAYERS THEN LAYERS[layer_idx]
    ELSE LAYERS[NumLayers - 1]

\* SemanticLayer.get(layer_idx): dict.get, None for a key LAYERS lacks
SemanticGet(layer_idx) ==
    IF layer_idx \in DOMAIN LAYERS THEN LAYERS[layer_idx] ELSE None

\* mutant: the scan of LAYERS starts at its second key
ByCategorySkipsFirst(category) ==
    LET InCategory(idx) == LAYERS[idx][3] = category
    IN  SelectSeq(Tail(LayerOrder), InCategory)

\* SemanticLayer.by_category(category): the keys of that category, in
\* insertion order
ByCategory(category) ==
    LET InCategory(idx) == LAYERS[idx][3] = category
    IN  SelectSeq(LayerOrder, InCategory)

\* str.upper() on the category names the model hands in
Upper(name) ==
    CASE name = "perception" -> "PERCEPTION"
      [] name = "Processing" -> "PROCESSING"
      [] name = "interaction" -> "INTERACTION"
      [] name = "emergence" -> "EMERGENCE"
      [] name = "meta" -> "META"
      [] name = "sensory" -> "SENSORY"
      [] OTHER -> name

\* EnhancedByteSilMapper.get_layers_by_category(category): SemanticCategory[
\* category.upper()] raises KeyError for a name the enum lacks, caught
\* and answered with []
GetLayersByCategory(category) ==
    IF \E k \in 1 .. Len(Categories) : Categories[k] = Upper(category)
    THEN ByCategory(Upper(category))
    ELSE <<>>

(***************************************************************************)
(* LinearEncoder                                                           *)
(***************************************************************************)
\* mutant: the bounded value is scaled by 128 instead of 127.5
EncodeByteScaled(val) ==
    LET bounded == Tanh(val)
        byte_val == ((bounded + Micro) * NeutralByte) \div Micro
    IN  Clip(byte_val, 0, ByteMax)

\* int((float(np.tanh(val)) + 1.0) * 127.5), then np.clip(_, 0, 255)
EncodeByte(val) ==
    LET bounded == Tanh(val)
        byte_val == ((bounded + Micro) * ByteMax) \div (2 * Micro)
    IN  Clip(byte_val, 0, ByteMax)

\* mutant: the loop runs over every feature handed in, min(16, _) left out
EncodeCountAll(features) == Len(features)

\* the number of turns of encode's loop
EncodeCount(features) == Min(NumLayers, Len(features))

\* mutant: encode starts from SilState.neutral()
EncodeStartNeutral == NeutralState

\* the state encode starts from
EncodeStart == VacuumState

\* encode's loop from turn i on; acc carries the state built so far and
\* writes, the slots handed to with_layer in order
RECURSIVE EncodeFrom(_, _, _)
EncodeFrom(features, i, acc) ==
    IF i >= EncodeCount(features) \/ ~acc.ok
    THEN acc
    ELSE LET r == WithLayer(acc.val, i, EncodeByte(features[i + 1]))
         IN  EncodeFrom(features, i + 1,
                        [ok |-> r.ok, val |-> r.val, err |-> r.err,
                         writes |-> Append(acc.writes, i)])

EncodeTrace(features) ==
    EncodeFrom(features, 0,
               [ok |-> TRUE, val |-> EncodeStart, err |-> "none", writes |-> <<>>])

\* LinearEncoder.encode(features)
LinearEncode(features) ==
    LET t == EncodeTrace(features)
    IN  [ok |-> t.ok, val |-> t.val, err |-> t.err]

\* (byte_val / 127.5) - 1.0, in millionths
Normalized(byte_val) == (byte_val * 2 * Micro) \div ByteMax - Micro

\* mutant: the normalized value goes to np.arctanh unclipped
DecodeByteUnclipped(byte_val) == ArcTanh(Normalized(byte_val))

\* encode after decode, slot by slot: decode's value for the byte, np.tanh of
\* it, int((_ + 1.0) * 127.5), np.clip, written into the vacuum state
Reencode(s) ==
    [i \in Layers |->
        LET bounded == TanhOfDecoded[s[i] + 1]
            byte_val == ((bounded + Micro) * ByteMax) \div (2 * Micro)
        IN  Clip(byte_val, 0, ByteMax)]

\* np.arctanh(np.clip(normalized, -0.999, 0.999))
DecodeByte(byte_val) ==
    ArcTanh(Clip(Normalized(byte_val), 0 - ClipLimit, ClipLimit))

\* LinearEncoder.decode(state): 16 values, position i + 1 for slot i
LinearDecode(s) == [k \in 1 .. NumLayers |-> DecodeByte(s[k - 1])]

RECURSIVE SumSeq(_)
SumSeq(q) == IF q = <<>> THEN 0 ELSE q[1] + SumSeq(Tail(q))

RECURSIVE MaxSeq(_)
MaxSeq(q) ==
    IF Len(q) = 1 THEN q[1]
    ELSE LET m == MaxSeq(Tail(q)) IN IF q[1] > m THEN q[1] ELSE m

\* LinearEncoder.measure_fidelity(features): np.max of no errors raises
\* ValueError; the mean is cut to whole millionths
MeasureFidelity(features) ==
    LET state == LinearEncode(features)
        n == Min(Len(features), NumLayers)
    IN  IF ~state.ok THEN Fail(state.err)
        ELSE LET recovered == LinearDecode(state.val)
                 errors == [k \in 1 .. n |-> Abs(features[k] - recovered[k])]
             IN  IF n = 0 THEN Fail("ValueError")
                 ELSE Ok([mean_error |-> SumSeq(errors) \div n,
                          max_error |-> MaxSeq(errors),
                          total |-> SumSeq(errors),
                          count |-> n])

(***************************************************************************)
(* TransformPipeline                                                       *)
(***************************************************************************)
\* TransformPipeline.perception()
Perception == [k \in 1 .. 5 |-> <<k - 1, "identity">>]

\* mutant: the blend lands one layer too far
ProcessingShifted ==
    << <<5, "power_1">>, <<6, "power_1">>, <<8, "mix_neutral">> >>

\* TransformPipeline.processing()
Processing == << <<5, "power_1">>, <<6, "power_1">>, <<7, "mix_neutral">> >>

\* mutant: the recipe stops one layer short
InteractionShort == << <<8, "mix_neutral">>, <<9, "mix_neutral">> >>

\* TransformPipeline.interaction()
Interaction ==
    << <<8, "mix_neutral">>, <<9, "mix_neutral">>, <<10, "mix_neutral">> >>

\* TransformPipeline.emergence()
Emergence == << <<11, "power_2">>, <<12, "power_3">> >>

\* TransformPipeline.meta()
Meta == << <<13, "power_2">>, <<14, "power_2">>, <<15, "identity">> >>

\* mutant: the Emergence recipe is concatenated twice
FullSemanticTwice ==
    Perception \o Processing \o Interaction \o Emergence \o Emergence \o Meta

\* mutant: the Meta recipe is concatenated before the Emergence recipe
FullSemanticMetaFirst ==
    Perception \o Processing \o Interaction \o Meta \o Emergence

\* TransformPipeline.full_semantic()
FullSemantic == Perception \o Processing \o Interaction \o Emergence \o Meta

\* mutant: "identity" takes the branch of "mix_neutral"
TransformByteIdentityMixes(byte_obj, transform_name) ==
    CASE transform_name = "identity" -> Mix(byte_obj, NeutralByte)
      [] transform_name = "power_1" -> Pow(byte_obj, 1)
      [] transform_name = "power_2" -> Pow(byte_obj, 2)
      [] transform_name = "power_3" -> Pow(byte_obj, 3)
      [] transform_name = "mix_neutral" -> Mix(byte_obj, NeutralByte)
      [] OTHER -> byte_obj

\* mutant: a name outside the chain yields the neutral byte
TransformByteUnknownNeutral(byte_obj, transform_name) ==
    CASE transform_name = "identity" -> byte_obj
      [] transform_name = "power_1" -> Pow(byte_obj, 1)
      [] transform_name = "power_2" -> Pow(byte_obj, 2)
      [] transform_name = "power_3" -> Pow(byte_obj, 3)
      [] transform_name = "mix_neutral" -> Mix(byte_obj, NeutralByte)
      [] OTHER -> NeutralByte

\* the if/elif chain of apply: the transform a name stands for
TransformByte(byte_obj, transform_name) ==
    CASE transform_name = "identity" -> byte_obj
      [] transform_name = "power_1" -> Pow(byte_obj, 1)
      [] transform_name = "power_2" -> Pow(byte_obj, 2)
      [] transform_name = "power_3" -> Pow(byte_obj, 3)
      [] transform_name = "mix_neutral" -> Mix(byte_obj, NeutralByte)
      [] OTHER -> byte_obj

\* mutant: the guard of the loop is layer_idx > 16
RECURSIVE ApplyFromLateGuard(_, _, _)
ApplyFromLateGuard(result, transforms, k) ==
    IF k > Len(transforms)
    THEN Ok(result)
    ELSE LET layer_idx == transforms[k][1]
             transform_name == transforms[k][2]
         IN  IF layer_idx > NumLayers
             THEN ApplyFromLateGuard(result, transforms, k + 1)
             ELSE LET g == GetLayer(result, layer_idx)
                  IN  IF ~g.ok
                      THEN Fail(g.err)
                      ELSE LET w == WithLayer(result, layer_idx,
                                              TransformByte(g.val, transform_name))
                           IN  IF ~w.ok
                               THEN Fail(w.err)
                               ELSE ApplyFromLateGuard(w.val, transforms, k + 1)

\* apply's loop from recipe entry k on, over the state built so far
RECURSIVE ApplyFrom(_, _, _)
ApplyFrom(result, transforms, k) ==
    IF k > Len(transforms)
    THEN Ok(result)
    ELSE LET layer_idx == transforms[k][1]
             transform_name == transforms[k][2]
         IN  IF layer_idx >= NumLayers
             THEN ApplyFrom(result, transforms, k + 1)
             ELSE LET g == GetLayer(result, layer_idx)
                  IN  IF ~g.ok
                      THEN Fail(g.err)
                      ELSE LET w == WithLayer(result, layer_idx,
                                              TransformByte(g.val, transform_name))
                           IN  IF ~w.ok
                               THEN Fail(w.err)
                               ELSE ApplyFrom(w.val, transforms, k + 1)

\* mutant: every turn reads its byte from the state apply was handed
RECURSIVE ApplyOnInputFrom(_, _, _, _)
ApplyOnInputFrom(state, result, transforms, k) ==
    IF k > Len(transforms)
    THEN Ok(result)
    ELSE LET layer_idx == transforms[k][1]
             transform_name == transforms[k][2]
         IN  IF layer_idx >= NumLayers
             THEN ApplyOnInputFrom(state, result, transforms, k + 1)
             ELSE LET g == GetLayer(state, layer_idx)
                  IN  IF ~g.ok
                      THEN Fail(g.err)
                      ELSE LET w == WithLayer(result, layer_idx,
                                              TransformByte(g.val, transform_name))
                           IN  IF ~w.ok
                               THEN Fail(w.err)
                               ELSE ApplyOnInputFrom(state, w.val, transforms, k + 1)

ApplyOnInput(state, transforms) == ApplyOnInputFrom(state, state, transforms, 1)

\* TransformPipeline.apply(state, transforms)
Apply(state, transforms) == ApplyFrom(state, transforms, 1)

(***************************************************************************)
(* MlPipeline                                                              *)
(***************************************************************************)
\* mutant: the "pure" branch falls through to the Processing recipe
MlEncodePureProcessed(cfg, f) ==
    LET state == LinearEncode(f)
    IN  IF ~state.ok THEN state
        ELSE IF cfg = "pure" \/ cfg = "with_processing"
        THEN Apply(state.val, Processing)
        ELSE IF cfg = "full_semantic" THEN Apply(state.val, FullSemantic)
        ELSE state

\* mutant: a configuration that is not recognized is refused
MlEncodeStrict(cfg, f) ==
    LET state == LinearEncode(f)
    IN  IF ~state.ok THEN state
        ELSE IF cfg = "pure" THEN state
        ELSE IF cfg = "with_processing" THEN Apply(state.val, Processing)
        ELSE IF cfg = "full_semantic" THEN Apply(state.val, FullSemantic)
        ELSE Fail("ValueError")

\* MlPipeline.encode(features) of a pipeline built with cfg
MlEncode(cfg, f) ==
    LET state == LinearEncode(f)
    IN  IF ~state.ok THEN state
        ELSE IF cfg = "pure" THEN state
        ELSE IF cfg = "with_processing" THEN Apply(state.val, Processing)
        ELSE IF cfg = "full_semantic" THEN Apply(state.val, FullSemantic)
        ELSE state

\* mutant: decode runs the Processing recipe again under the configurations
\* that transform
MlDecodeTransforming(cfg, s) ==
    IF cfg \in {"with_processing", "full_semantic"}
    THEN LinearDecode(Apply(s, Processing).val)
    ELSE LinearDecode(s)

\* MlPipeline.decode(state)
MlDecode(cfg, s) == LinearDecode(s)

\* MlPipeline.process(features): (state, recovered)
Process(cfg, f) ==
    LET state == MlEncode(cfg, f)
    IN  IF ~state.ok THEN [state EXCEPT !.val = <<>>]
        ELSE Ok([state |-> state.val, recovered |-> MlDecode(cfg, state.val)])

\* MlPipeline.get_layer_info(layer_idx): (index, name, category.value), or
\* None
GetLayerInfo(cfg, layer_idx) ==
    LET layer_data == SemanticGet(layer_idx)
    IN  IF layer_data = None THEN None
        ELSE <<layer_data[1], layer_data[2], layer_data[3]>>

\* mutant: the errors are taken on the decode of the state encode returns
\* under the configuration
MlMeasureFidelityOfProcessed(cfg, f) ==
    LET state == MlEncode(cfg, f)
        n == Min(Len(f), NumLayers)
    IN  IF ~state.ok THEN Fail(state.err)
        ELSE IF n = 0 THEN Fail("ValueError")
        ELSE LET recovered == LinearDecode(state.val)
                 errors == [k \in 1 .. n |-> Abs(f[k] - recovered[k])]
                 mean_err == SumSeq(errors) \div n
             IN  Ok([mean_error |-> mean_err,
                     max_error |-> MaxSeq(errors),
                     fidelity_ok |-> mean_err < FidelityLimit])

\* MlPipeline.measure_fidelity(features): the dict it returns
MlMeasureFidelity(cfg, f) ==
    LET m == MeasureFidelity(f)
    IN  IF ~m.ok THEN m
        ELSE Ok([mean_error |-> m.val.mean_error,
                 max_error |-> m.val.max_error,
                 fidelity_ok |-> m.val.mean_error < FidelityLimit])

(***************************************************************************)
(* ByteSilMapper (the benchmark's inline mapper) and EnhancedByteSilMapper *)
(***************************************************************************)
\* to_sil_state's loop from position i on, over the state built so far
RECURSIVE ToSilStateFrom(_, _, _)
ToSilStateFrom(feature_vector, i, state) ==
    IF i >= Min(NumLayers, Len(feature_vector))
    THEN Ok(state)
    ELSE LET val == feature_vector[i + 1]
             bounded == Tanh(val)
             byte_val == Clip(((bounded + Micro) * ByteMax) \div (2 * Micro),
                              0, ByteMax)
             w == WithLayer(state, i, byte_val)
         IN  IF ~w.ok THEN Fail(w.err)
             ELSE ToSilStateFrom(feature_vector, i + 1, w.val)

\* mutant: the inline mapper fills the neutral state
ToSilStateOnNeutral(feature_vector) ==
    ToSilStateFrom(feature_vector, 0, NeutralState)

\* ByteSilMapper.to_sil_state(feature_vector)
ToSilState(feature_vector) == ToSilStateFrom(feature_vector, 0, VacuumState)

\* ByteSilMapper.from_sil_state(state)
FromSilState(state) ==
    [k \in 1 .. NumLayers |->
        LET byte_val == GetLayer(state, k - 1).val
            normalized == (byte_val * 2 * Micro) \div ByteMax - Micro
        IN  ArcTanh(Clip(normalized, 0 - ClipLimit, ClipLimit))]

\* EnhancedByteSilMapper(pipeline_config).to_sil_state(feature_vector)
EnhancedToSilState(pipeline_config, feature_vector) ==
    MlEncode(pipeline_config, feature_vector)

\* EnhancedByteSilMapper(pipeline_config).from_sil_state(state)
EnhancedFromSilState(pipeline_config, state) == MlDecode(pipeline_config, state)

(***************************************************************************)
(* The inputs of the model                                                 *)
(***************************************************************************)
\* the three configurations MlPipeline names, and two it does not
Configs == {"pure", "with_processing", "full_semantic", "log_polar", "PURE"}

FeatureValues == {-20000000, -1000000, 0, 100000, 1000000, 2500000, 20000000}

\* a vector of n features: a up to position p, b after it
StepVector(n, p, a, b) == [k \in 1 .. n |-> IF k <= p THEN a ELSE b]

\* vectors of every length up to MaxLen, stepping after the first feature or
\* after the 16th
FeatureVectors ==
    {StepVector(n, p, a, b) : n \in 0 .. MaxLen, p \in {1, NumLayers},
                              a \in FeatureValues, b \in FeatureValues}

\* the vector of the state-level specification: one feature per layer
SmallVectors == {StepVector(NumLayers, 1, 2500000, 100000)}

IndexSamples == {3, NumLayers - 1, NumLayers, NumLayers + 1}

ByteSamples == {0, 200, ByteMax}

Recipes ==
    {Perception, Processing, Emergence, FullSemantic,
     << <<3, "power_2">>, <<NumLayers, "identity">>, <<3, "power_2">> >>,
     << <<3, "power_2">>, <<0 - 1, "identity">> >>,
     << <<5, "power_4">>, <<6, "power_2">> >>}

\* layer indexes handed to get_layer_info between other calls
InfoSamples == {5, NumLayers}

\* layer indexes handed to the registry: every layer, and one or two
\* indexes on either side
LookupIndexes == (0 - 1) .. (NumLayers + 1)

\* category names handed to get_layers_by_category
CategoryNames ==
    {"perception", "Processing", "interaction", "emergence", "meta",
     "sensory", "PERCEPTION"}

\* the recipe builders of TransformPipeline, by method name
BuilderNames ==
    {"perception", "processing", "interaction", "emergence", "meta",
     "full_semantic"}

Builder(name) ==
    CASE name = "perception" -> Perception
      [] name = "processing" -> Processing
      [] name = "interaction" -> Interaction
      [] name = "emergence" -> Emergence
      [] name = "meta" -> Meta
      [] name = "full_semantic" -> FullSemantic

(***************************************************************************)
(* State: the pipeline's configuration, the caller's feature vector, the   *)
(* SilState objects the caller holds (heap[id]), and the last call with    *)
(* what it returned                                                        *)
(***************************************************************************)
NoCall ==
    [op |-> "none", ref |-> 0, index |-> 0, byte |-> 0, recipe |-> <<>>,
     ret |-> 0, err |-> "none", writes |-> <<>>, values |-> <<>>,
     report |-> <<>>, arg |-> ""]

Held == 1 .. Len(heap)

\* the id a call returns its new state under, 0 when the call failed
NewId(r) == IF r.ok THEN Len(heap) + 1 ELSE 0

\* the objects held after a call that returned r
Alloc(r) == IF r.ok THEN Append(heap, r.val) ELSE heap

\* the callers that share one state: one runs apply, one with_layer, one decode
ThreadNames == {"applier", "setter", "reader"}

\* a caller's frame: its position, apply's recipe and loop index, whether its
\* local name result is still bound to the shared object, the state or
\* values it has built so far
IdleThread ==
    [pc |-> "idle", recipe |-> <<>>, k |-> 0, aliased |-> FALSE,
     result |-> <<>>, seen |-> <<>>]

IdleThreads == [t \in ThreadNames |-> IdleThread]

\* the id of the state every caller was handed
Shared == 1

\* the recipes the applying caller runs
SharedRecipes ==
    {Processing,
     << <<3, "power_2">>, <<NumLayers, "identity">>, <<3, "power_2">> >>}

Init ==
    /\ config \in Configs
    /\ input \in SmallVectors
    /\ heap = <<>>
    /\ last = NoCall
    /\ threads = IdleThreads

\* a state holding the byte b in every slot
UniformState(b) == [i \in Layers |-> b]

\* one held state per byte value
InitByte ==
    /\ config \in {"pure"}
    /\ input \in SmallVectors
    /\ \E b \in Bytes : heap = <<UniformState(b)>>
    /\ last = NoCall
    /\ threads = IdleThreads

\* one encoded state, handed to every caller
InitShared ==
    /\ config \in Configs
    /\ input \in SmallVectors
    /\ heap = <<MlEncode(config, input).val>>
    /\ last = NoCall
    /\ threads = IdleThreads

InitCodec ==
    /\ config \in Configs
    /\ input \in FeatureVectors
    /\ heap = <<>>
    /\ last = NoCall
    /\ threads = IdleThreads

\* SilState.vacuum()
DoVacuum ==
    /\ Len(heap) < MaxObjs
    /\ heap' = Append(heap, VacuumState)
    /\ last' = [NoCall EXCEPT !.op = "vacuum", !.ret = Len(heap) + 1]
    /\ UNCHANGED <<threads, config, input>>

\* SilState.neutral()
DoNeutral ==
    /\ Len(heap) < MaxObjs
    /\ heap' = Append(heap, NeutralState)
    /\ last' = [NoCall EXCEPT !.op = "neutral", !.ret = Len(heap) + 1]
    /\ UNCHANGED <<threads, config, input>>

\* LinearEncoder.encode(input)
DoEncode ==
    /\ Len(heap) < MaxObjs
    /\ LET t == EncodeTrace(input)
       IN  /\ heap' = Alloc(t)
           /\ last' = [NoCall EXCEPT !.op = "encode", !.ret = NewId(t),
                                     !.err = t.err, !.writes = t.writes]
    /\ UNCHANGED <<threads, config, input>>

\* pipeline.encode(input)
DoMlEncode ==
    /\ Len(heap) < MaxObjs
    /\ LET r == MlEncode(config, input)
       IN  /\ heap' = Alloc(r)
           /\ last' = [NoCall EXCEPT !.op = "ml_encode", !.ret = NewId(r),
                                     !.err = r.err]
    /\ UNCHANGED <<threads, config, input>>

\* state.with_layer(index, ByteSil.from_u8(value)) on a held state
DoWithLayer ==
    /\ Len(heap) < MaxObjs
    /\ \E ref \in Held, index \in IndexSamples, value \in ByteSamples :
          LET r == WithLayer(heap[ref], index, value)
          IN  /\ heap' = Alloc(r)
              /\ last' = [NoCall EXCEPT !.op = "with_layer", !.ref = ref,
                                        !.index = index, !.byte = value,
                                        !.ret = NewId(r), !.err = r.err]
    /\ UNCHANGED <<threads, config, input>>

\* state.get_layer(index).to_u8() on a held state
DoGetLayer ==
    /\ \E ref \in Held, index \in IndexSamples :
          LET r == GetLayer(heap[ref], index)
          IN  last' = [NoCall EXCEPT !.op = "get_layer", !.ref = ref,
                                     !.index = index, !.err = r.err,
                                     !.values = IF r.ok THEN <<r.val>> ELSE <<>>]
    /\ UNCHANGED <<threads, config, input, heap>>

\* mutant: apply writes its result over the state it was given
DoApplyInPlace ==
    /\ Len(heap) < MaxObjs
    /\ \E ref \in Held, transforms \in Recipes :
          LET r == Apply(heap[ref], transforms)
          IN  /\ heap' = IF r.ok THEN [heap EXCEPT ![ref] = r.val] ELSE heap
              /\ last' = [NoCall EXCEPT !.op = "apply", !.ref = ref,
                                        !.recipe = transforms,
                                        !.ret = IF r.ok THEN ref ELSE 0,
                                        !.err = r.err]
    /\ UNCHANGED <<threads, config, input>>

\* TransformPipeline.apply(state, transforms) on a held state
DoApply ==
    /\ Len(heap) < MaxObjs
    /\ \E ref \in Held, transforms \in Recipes :
          LET r == Apply(heap[ref], transforms)
          IN  /\ heap' = Alloc(r)
              /\ last' = [NoCall EXCEPT !.op = "apply", !.ref = ref,
                                        !.recipe = transforms,
                                        !.ret = NewId(r), !.err = r.err]
    /\ UNCHANGED <<threads, config, input>>

\* LinearEncoder.decode(state) on a held state
DoDecode ==
    /\ \E ref \in Held :
          last' = [NoCall EXCEPT !.op = "decode", !.ref = ref,
                                 !.values = LinearDecode(heap[ref])]
    /\ UNCHANGED <<threads, config, input, heap>>

\* LinearEncoder.measure_fidelity(input)
DoMeasure ==
    /\ LET m == MeasureFidelity(input)
       IN  last' = [NoCall EXCEPT !.op = "measure_fidelity", !.err = m.err,
                                  !.report = m.val]
    /\ UNCHANGED <<threads, config, input, heap>>

\* LinearEncoder.encode(LinearEncoder.decode(state)) on a held state
DoReencode ==
    /\ Len(heap) < MaxObjs
    /\ \E ref \in Held :
          LET r == Ok(Reencode(heap[ref]))
          IN  /\ heap' = Alloc(r)
              /\ last' = [NoCall EXCEPT !.op = "reencode", !.ref = ref,
                                        !.ret = NewId(r), !.err = r.err]
    /\ UNCHANGED <<threads, config, input>>

\* ByteSilMapper.to_sil_state(input)
DoToSilState ==
    /\ Len(heap) < MaxObjs
    /\ LET r == ToSilState(input)
       IN  /\ heap' = Alloc(r)
           /\ last' = [NoCall EXCEPT !.op = "to_sil_state", !.ret = NewId(r),
                                     !.err = r.err]
    /\ UNCHANGED <<threads, config, input>>

\* ByteSilMapper.from_sil_state(state) on a held state
DoFromSilState ==
    /\ \E ref \in Held :
          last' = [NoCall EXCEPT !.op = "from_sil_state", !.ref = ref,
                                 !.values = FromSilState(heap[ref])]
    /\ UNCHANGED <<threads, config, input, heap>>

\* pipeline.decode(state) on a held state
DoMlDecode ==
    /\ \E ref \in Held :
          last' = [NoCall EXCEPT !.op = "ml_decode", !.ref = ref,
                                 !.values = MlDecode(config, heap[ref])]
    /\ UNCHANGED <<threads, config, input, heap>>

\* pipeline.process(input)
DoProcess ==
    /\ Len(heap) < MaxObjs
    /\ LET r == Process(config, input)
       IN  /\ heap' = IF r.ok THEN Append(heap, r.val.state) ELSE heap
           /\ last' = [NoCall EXCEPT !.op = "process", !.ret = NewId(r),
                                     !.err = r.err,
                                     !.values = IF r.ok THEN r.val.recovered
                                                ELSE <<>>]
    /\ UNCHANGED <<threads, config, input>>

\* pipeline.get_layer_info(layer_idx)
DoGetLayerInfo(indexes) ==
    /\ \E layer_idx \in indexes :
          last' = [NoCall EXCEPT !.op = "get_layer_info", !.index = layer_idx,
                                 !.values = GetLayerInfo(config, layer_idx)]
    /\ UNCHANGED <<threads, config, input, heap>>

\* mutant: measure_fidelity switches the pipeline to "pure" and leaves it so
DoMlMeasureResetsConfig ==
    /\ LET m == MlMeasureFidelity(config, input)
       IN  last' = [NoCall EXCEPT !.op = "ml_measure_fidelity", !.err = m.err,
                                  !.report = m.val]
    /\ config' = "pure"
    /\ UNCHANGED <<threads, input, heap>>

\* pipeline.measure_fidelity(input)
DoMlMeasure ==
    /\ LET m == MlMeasureFidelity(config, input)
       IN  last' = [NoCall EXCEPT !.op = "ml_measure_fidelity", !.err = m.err,
                                  !.report = m.val]
    /\ UNCHANGED <<threads, config, input, heap>>

\* SemanticLayer.by_category(category)
DoByCategory ==
    /\ \E k \in 1 .. Len(Categories) :
          last' = [NoCall EXCEPT !.op = "by_category", !.arg = Categories[k],
                                 !.values = ByCategory(Categories[k])]
    /\ UNCHANGED <<threads, config, input, heap>>

\* EnhancedByteSilMapper.get_layers_by_category(category)
DoGetLayersByCategory ==
    /\ \E name \in CategoryNames :
          last' = [NoCall EXCEPT !.op = "get_layers_by_category", !.arg = name,
                                 !.values = GetLayersByCategory(name)]
    /\ UNCHANGED <<threads, config, input, heap>>

\* one of the recipe builders of TransformPipeline
DoRecipe ==
    /\ \E name \in BuilderNames :
          last' = [NoCall EXCEPT !.op = "recipe", !.arg = name,
                                 !.recipe = Builder(name)]
    /\ UNCHANGED <<threads, config, input, heap>>

\* apply, entered by the applying caller: result = state binds the local
\* name to the shared object
ApplyBegin ==
    /\ threads["applier"].pc = "idle"
    /\ \E transforms \in SharedRecipes :
          threads' = [threads EXCEPT !["applier"] =
                         [@ EXCEPT !.pc = "loop", !.recipe = transforms,
                                   !.k = 1, !.aliased = TRUE]]
    /\ UNCHANGED <<config, input, heap, last>>

\* the object the applying caller's result names
ApplierResult ==
    IF threads["applier"].aliased THEN heap[Shared]
    ELSE threads["applier"].result

\* mutant: the turn writes the transformed byte into the object result names
ApplyStepInPlace ==
    /\ threads["applier"].pc = "loop"
    /\ threads["applier"].k <= Len(threads["applier"].recipe)
    /\ LET me == threads["applier"]
           layer_idx == me.recipe[me.k][1]
           transform_name == me.recipe[me.k][2]
           g == GetLayer(ApplierResult, layer_idx)
           w == WithLayer(ApplierResult, layer_idx,
                          TransformByte(g.val, transform_name))
       IN  IF layer_idx >= NumLayers
           THEN /\ threads' = [threads EXCEPT !["applier"].k = @ + 1]
                /\ heap' = heap
           ELSE IF ~g.ok \/ ~w.ok
           THEN /\ threads' = [threads EXCEPT !["applier"].pc = "failed"]
                /\ heap' = heap
           ELSE IF me.aliased
           THEN /\ threads' = [threads EXCEPT !["applier"].k = @ + 1]
                /\ heap' = [heap EXCEPT ![Shared] = w.val]
           ELSE /\ threads' = [threads EXCEPT !["applier"] =
                                   [@ EXCEPT !.k = me.k + 1, !.result = w.val]]
                /\ heap' = heap
    /\ UNCHANGED <<config, input, last>>

\* one turn of apply's loop, run by the applying caller: get_layer on
\* result, the transform, result = result.with_layer(...)
ApplyStep ==
    /\ threads["applier"].pc = "loop"
    /\ threads["applier"].k <= Len(threads["applier"].recipe)
    /\ LET me == threads["applier"]
           layer_idx == me.recipe[me.k][1]
           transform_name == me.recipe[me.k][2]
           g == GetLayer(ApplierResult, layer_idx)
           w == WithLayer(ApplierResult, layer_idx,
                          TransformByte(g.val, transform_name))
       IN  IF layer_idx >= NumLayers
           THEN threads' = [threads EXCEPT !["applier"].k = @ + 1]
           ELSE IF ~g.ok \/ ~w.ok
           THEN threads' = [threads EXCEPT !["applier"].pc = "failed"]
           ELSE threads' = [threads EXCEPT !["applier"] =
                               [@ EXCEPT !.k = me.k + 1, !.aliased = FALSE,
                                         !.result = w.val]]
    /\ UNCHANGED <<config, input, heap, last>>

\* apply returns result to the applying caller
ApplyReturn ==
    /\ threads["applier"].pc = "loop"
    /\ threads["applier"].k > Len(threads["applier"].recipe)
    /\ threads' = [threads EXCEPT !["applier"] =
                       [@ EXCEPT !.pc = "done", !.result = ApplierResult,
                                 !.aliased = FALSE]]
    /\ UNCHANGED <<config, input, heap, last>>

\* the setting caller derives a state from the shared one by with_layer
SetLayer ==
    /\ threads["setter"].pc = "idle"
    /\ \E index \in IndexSamples \cap Layers, value \in ByteSamples :
          threads' = [threads EXCEPT !["setter"] =
                         [@ EXCEPT !.pc = "done",
                                   !.result = WithLayer(heap[Shared], index, value).val]]
    /\ UNCHANGED <<config, input, heap, last>>

\* decode, entered by the reading caller: features = np.zeros(16)
ReadBegin ==
    /\ threads["reader"].pc = "idle"
    /\ threads' = [threads EXCEPT !["reader"].pc = "loop"]
    /\ UNCHANGED <<config, input, heap, last>>

\* one turn of decode's loop, run by the reading caller: get_layer(i),
\* to_u8, arctanh
ReadStep ==
    /\ threads["reader"].pc = "loop"
    /\ LET me == threads["reader"]
           byte_obj == GetLayer(heap[Shared], me.k)
           seen == Append(me.seen, DecodeByte(byte_obj.val))
       IN  threads' = [threads EXCEPT !["reader"] =
                          [@ EXCEPT !.k = me.k + 1, !.seen = seen,
                                    !.pc = IF me.k + 1 = NumLayers
                                           THEN "done" ELSE "loop"]]
    /\ UNCHANGED <<config, input, heap, last>>

Next ==
    \/ DoVacuum
    \/ DoNeutral
    \/ DoEncode
    \/ DoMlEncode
    \/ DoWithLayer
    \/ DoGetLayer
    \/ DoApply
    \/ DoDecode
    \/ DoMeasure
    \/ DoMlDecode
    \/ DoProcess
    \/ DoGetLayerInfo(InfoSamples)
    \/ DoMlMeasure

Spec == Init /\ [][Next]_vars

\* one codec session: a single state is encoded from the input vector
NextCodec ==
    \/ heap = <<>> /\ DoEncode
    \/ heap = <<>> /\ DoMlEncode
    \/ heap = <<>> /\ DoToSilState
    \/ DoDecode
    \/ DoMeasure
    \/ DoMlDecode
    \/ DoFromSilState
    \/ DoMlMeasure

SpecCodec == InitCodec /\ [][NextCodec]_vars

\* the registry and the recipe builders, called on their own
NextRegistry ==
    \/ DoGetLayerInfo(LookupIndexes)
    \/ DoByCategory
    \/ DoGetLayersByCategory
    \/ DoRecipe

SpecRegistry == Init /\ [][NextRegistry]_vars

\* decoding and re-encoding the state of each byte value
NextByte ==
    \/ Len(heap) = 1 /\ DoReencode
    \/ DoDecode

SpecByte == InitByte /\ [][NextByte]_vars

\* three callers on one shared state, their steps interleaved
NextShared ==
    \/ ApplyBegin
    \/ ApplyStep
    \/ ApplyReturn
    \/ SetLayer
    \/ ReadBegin
    \/ ReadStep

SpecShared == InitShared /\ [][NextShared]_vars

(***************************************************************************)
(* Properties                                                              *)
(***************************************************************************)
\* the state the last call returned
Returned == heap[last.ret]

EncodeDone == last.op = "encode" /\ last.err = "none"

\* f and g hold the same values at their first 16 positions
SameHead(f, g) ==
    /\ Len(f) >= NumLayers
    /\ Len(g) >= NumLayers
    /\ \A k \in 1 .. NumLayers : f[k] = g[k]

\* C1: encode of a vector of n < 16 features hands exactly the slots
\* 0 .. n-1 to with_layer, in order, and the state it returns holds raw
\* byte 0, the vacuum default, in every slot n .. 15.
C1_PaddingKeepsVacuum ==
    (last.op = "encode" /\ Len(input) < NumLayers) =>
        /\ last.err = "none"
        /\ last.writes = [k \in 1 .. Len(input) |-> k - 1]
        /\ \A i \in Layers : i >= Len(input) => Returned[i] = 0

C1_Witness ==
    /\ EncodeDone
    /\ Len(input) = 2
    /\ Returned[0] # 0
    /\ Returned[1] # 0
    /\ Returned[2] = 0

\* C2: encode of a vector of 16 or more features does not fail, and every
\* vector with the same first 16 values, whatever its length and its values
\* from position 16 on, encodes to the same state.
C2_TailHasNoEffect ==
    (last.op = "encode" /\ Len(input) >= NumLayers) =>
        /\ last.err = "none"
        /\ \A g \in FeatureVectors :
              SameHead(input, g) => LinearEncode(g) = Ok(Returned)

C2_Witness ==
    /\ EncodeDone
    /\ Len(input) = NumLayers + 2
    /\ \E g \in FeatureVectors :
          /\ SameHead(input, g)
          /\ Len(g) = NumLayers + 1
          /\ g[NumLayers + 1] # input[NumLayers + 1]

\* round((bounded + 1) * 127.5) clamped to [0, 255]: the nearest byte
NearestByte(val) ==
    Clip(((Tanh(val) + Micro) * ByteMax + Micro) \div (2 * Micro), 0, ByteMax)

\* C3: the byte encode stores in slot i < min(16, len) is the nearest byte,
\* round((bounded + 1) * 127.5) clamped to [0, 255], so that the feature 0.0
\* is stored as the midpoint byte 128.
C3_StoresNearestByte ==
    EncodeDone =>
        \A i \in Layers :
            i < Len(input) => Returned[i] = NearestByte(input[i + 1])

\* every feature of the input has a magnitude of at most 3
InOperatingRange == \A k \in 1 .. Len(input) : Abs(input[k]) <= 3 * Micro

\* C4: for a feature vector with every magnitude within 3, the mean absolute
\* error measure_fidelity returns is under 0.01.
C4_MeanErrorUnderLimit ==
    (last.op = "measure_fidelity" /\ last.err = "none" /\ InOperatingRange) =>
        last.report.total < FidelityLimit * last.report.count

\* C5: with_layer(s, i, v) with i in 0..15 returns a new state that holds v
\* in slot i and equals s in every other slot, and no call (with_layer,
\* apply, encode or any other) changes a state that was held before it.
C5_UpdatesAreCopyOnWrite ==
    [][/\ \A id \in Held : id <= Len(heap') /\ heap'[id] = heap[id]
       /\ (last'.op = "with_layer" /\ last'.index \in Layers) =>
             /\ last'.err = "none"
             /\ last'.ret \notin Held
             /\ \A i \in Layers :
                   heap'[last'.ret][i] =
                       IF i = last'.index THEN last'.byte
                       ELSE heap[last'.ref][i]]_vars

C5_Witness ==
    /\ last.op = "with_layer"
    /\ last.err = "none"
    /\ last.ret # last.ref
    /\ heap[last.ret][last.index] = last.byte
    /\ heap[last.ref][last.index] # last.byte

\* C6: get_layer and with_layer with an index of 16 or more fail with
\* IndexOutOfRange, return nothing, and leave every held state as it was.
C6_OutOfRangeFailsWhole ==
    [][(last'.op \in {"get_layer", "with_layer"} /\ last'.index >= NumLayers) =>
          /\ last'.err = "IndexOutOfRange"
          /\ last'.ret = 0
          /\ last'.values = <<>>
          /\ heap' = heap]_vars

C6_Witness ==
    /\ last.op = "with_layer"
    /\ last.index = NumLayers
    /\ last.err = "IndexOutOfRange"
    /\ heap # <<>>

\* the plain encoding of the input vector
Plain == LinearEncode(input).val

MlEncodeCalled == last.op = "ml_encode"

\* C7: under the configuration "pure", the pipeline's encode returns exactly
\* the state LinearEncoder.encode returns for the same vector.
C7_PureIsPlainEncode ==
    (MlEncodeCalled /\ config = "pure") =>
        /\ last.err = "none"
        /\ Ok(Returned) = LinearEncode(input)

C7_Witness ==
    /\ MlEncodeCalled
    /\ config = "pure"
    /\ Len(input) > NumLayers
    /\ Apply(Returned, Processing) # Ok(Returned)

\* C8: under a configuration that is none of "pure", "with_processing" and
\* "full_semantic", encode does not fail and returns what it returns
\* under "pure".
C8_UnknownConfigIsPure ==
    (MlEncodeCalled /\ config \notin {"pure", "with_processing", "full_semantic"}) =>
        /\ last.err = "none"
        /\ Ok(Returned) = MlEncode("pure", input)

C8_Witness ==
    /\ MlEncodeCalled
    /\ config = "log_polar"
    /\ last.err = "none"
    /\ Len(input) = NumLayers
    /\ Apply(Returned, FullSemantic) # Ok(Returned)

\* C9: under "with_processing", encode returns apply(plain encoding,
\* processing recipe), and only slots 5, 6 and 7 can differ from the plain
\* encoding.
C9_ProcessingTouchesThreeSlots ==
    (MlEncodeCalled /\ config = "with_processing") =>
        /\ last.err = "none"
        /\ Ok(Returned) = Apply(Plain, Processing)
        /\ \A i \in Layers \ {5, 6, 7} : Returned[i] = Plain[i]

C9_Witness ==
    /\ MlEncodeCalled
    /\ config = "with_processing"
    /\ Returned[7] # Plain[7]
    /\ Plain[8] # Mix(Plain[8], NeutralByte)

\* C10: under "full_semantic", encode returns apply(plain encoding,
\* full_semantic recipe): slots 0..4 and 15 are those of the plain encoding,
\* slots 5 and 6 get pow(1), slots 7..10 the blend with 128, slot 11 pow(2),
\* slot 12 pow(3), slots 13 and 14 pow(2), each once.
C10_FullSemanticPerSlot ==
    (MlEncodeCalled /\ config = "full_semantic") =>
        /\ last.err = "none"
        /\ Ok(Returned) = Apply(Plain, FullSemantic)
        /\ \A i \in (0 .. 4) \cup {15} : Returned[i] = Plain[i]
        /\ \A i \in {5, 6} : Returned[i] = Pow(Plain[i], 1)
        /\ \A i \in 7 .. 10 : Returned[i] = Mix(Plain[i], NeutralByte)
        /\ Returned[11] = Pow(Plain[11], 2)
        /\ Returned[12] = Pow(Plain[12], 3)
        /\ \A i \in {13, 14} : Returned[i] = Pow(Plain[i], 2)

C10_Witness ==
    /\ MlEncodeCalled
    /\ config = "full_semantic"
    /\ Len(input) >= NumLayers
    /\ Returned[8] # Plain[8]
    /\ Returned[11] # Plain[11]
    /\ Pow(Returned[11], 2) # Returned[11]
    /\ Returned[12] # Pow(Plain[12], 2)

\* C11: under every configuration, recognized or not, the pipeline's decode
\* of a state returns the 16 values LinearEncoder.decode returns for it; no
\* inverse transform is applied.
C11_DecodeIgnoresConfig ==
    (last.op = "ml_decode") =>
        /\ last.err = "none"
        /\ Len(last.values) = NumLayers
        /\ last.values = LinearDecode(heap[last.ref])

C11_Witness ==
    /\ last.op = "ml_decode"
    /\ config = "full_semantic"
    /\ heap[last.ref] # Plain
    /\ Apply(heap[last.ref], Processing) # Ok(heap[last.ref])
    /\ Len(last.values) = NumLayers

\* C12: no call changes the pipeline's configuration (or the caller's
\* vector), and every encode and process call returns the state encode gives
\* for that configuration and vector, so two encode calls at different
\* points of a run return the same state.
C12_ConfigIsFixed ==
    [][/\ config' = config
       /\ input' = input
       /\ (last'.op \in {"ml_encode", "process"}) =>
             Ok(heap'[last'.ret]) = MlEncode(config, input)]_vars

C12_Witness ==
    /\ last.op = "ml_encode"
    /\ config = "full_semantic"
    /\ Len(heap) = 2
    /\ heap[1] = heap[2]
    /\ heap[1] # Plain

\* the layer indexes a recipe names, in recipe order
RecipeLayers(recipe) == [k \in 1 .. Len(recipe) |-> recipe[k][1]]

\* C13: full_semantic() returns 16 entries whose layer indexes are 0, 1, ..,
\* 15 in this order, each once, and it is the concatenation of the
\* perception, processing, interaction, emergence and meta recipes.
C13_FullRecipeCoversEachLayerOnce ==
    (last.op = "recipe" /\ last.arg = "full_semantic") =>
        /\ Len(last.recipe) = NumLayers
        /\ RecipeLayers(last.recipe) = LayerOrder
        /\ \A i \in Layers :
              Cardinality({k \in 1 .. Len(last.recipe) : last.recipe[k][1] = i}) = 1
        /\ last.recipe = Builder("perception") \o Builder("processing")
                         \o Builder("interaction") \o Builder("emergence")
                         \o Builder("meta")

C13_Witness ==
    /\ last.op = "recipe"
    /\ last.arg = "full_semantic"
    /\ last.recipe[1] = <<0, "identity">>
    /\ last.recipe[NumLayers] = <<NumLayers - 1, "identity">>

\* the category whose layers a recipe builder is written for
BuilderCategory(name) ==
    CASE name = "perception" -> "PERCEPTION"
      [] name = "processing" -> "PROCESSING"
      [] name = "interaction" -> "INTERACTION"
      [] name = "emergence" -> "EMERGENCE"
      [] name = "meta" -> "META"

\* C14: the layer indexes each of the five category recipe builders names
\* are the indexes by_category returns for that category, in the same
\* order.
C14_RecipesFollowCategories ==
    (last.op = "recipe" /\ last.arg # "full_semantic") =>
        RecipeLayers(last.recipe) = ByCategory(BuilderCategory(last.arg))

C14_Witness ==
    /\ last.op = "recipe"
    /\ last.arg = "interaction"
    /\ RecipeLayers(last.recipe) = <<8, 9, 10>>

\* the values of a sequence
Range(q) == {q[k] : k \in 1 .. Len(q)}

\* the layers of each category, as the specification lists them
CategoryLayers(category) ==
    CASE category = "PERCEPTION" -> <<0, 1, 2, 3, 4>>
      [] category = "PROCESSING" -> <<5, 6, 7>>
      [] category = "INTERACTION" -> <<8, 9, 10>>
      [] category = "EMERGENCE" -> <<11, 12>>
      [] category = "META" -> <<13, 14, 15>>

\* C15: by_category returns [0..4], [5..7], [8..10], [11, 12] and [13..15]
\* for the five categories; the results are pairwise disjoint and their
\* union is 0..15. get_layers_by_category returns the same list for a name
\* that upper-cases to a category.
C15_CategoriesPartitionLayers ==
    /\ (last.op = "by_category") =>
          /\ last.values = CategoryLayers(last.arg)
          /\ \A k \in 1 .. Len(Categories) :
                Categories[k] # last.arg =>
                    Range(ByCategory(Categories[k])) \cap Range(last.values) = {}
          /\ UNION {Range(ByCategory(Categories[k])) : k \in 1 .. Len(Categories)}
                = Layers
    /\ (last.op = "get_layers_by_category" /\ last.arg = "perception") =>
          last.values = CategoryLayers("PERCEPTION")

C15_Witness ==
    /\ last.op = "by_category"
    /\ last.arg = "PERCEPTION"
    /\ last.values = <<0, 1, 2, 3, 4>>

InRange(recipe) ==
    LET Named(e) == e[1] \in Layers
    IN  SelectSeq(recipe, Named)

ApplyCalled == last.op = "apply"

\* C17: apply does not fail on a recipe whose indexes are 0 or more; the
\* state it returns differs from its input only in slots the recipe names,
\* and it is the state apply returns for the recipe without its entries of
\* index 16 or more.
C17_ApplyWritesNamedSlotsOnly ==
    ApplyCalled =>
        /\ (\A k \in 1 .. Len(last.recipe) : last.recipe[k][1] >= 0) =>
              last.err = "none"
        /\ (last.err = "none") =>
              /\ \A i \in Layers \ Range(RecipeLayers(last.recipe)) :
                    Returned[i] = heap[last.ref][i]
              /\ Ok(Returned) = Apply(heap[last.ref], InRange(last.recipe))

C17_Witness ==
    /\ ApplyCalled
    /\ last.err = "none"
    /\ NumLayers \in Range(RecipeLayers(last.recipe))
    /\ Returned # heap[last.ref]

C19_IdentityRecipeChangesNothing ==
    (ApplyCalled /\ \A k \in 1 .. Len(last.recipe) : last.recipe[k][2] = "identity") =>
        /\ last.err = "none"
        /\ Returned = heap[last.ref]

C19_Witness ==
    /\ ApplyCalled
    /\ last.recipe = Perception
    /\ Returned = heap[last.ref]
    /\ Mix(Returned[3], NeutralByte) # Returned[3]

\* C20: decode returns 16 finite values for every state: each is arctanh of
\* the normalized byte clipped to [-0.999, 0.999], so byte 0 decodes to
\* arctanh(-0.999) and byte 255 to arctanh(0.999).
C20_DecodeIsClipped ==
    (last.op = "decode") =>
        /\ last.err = "none"
        /\ Len(last.values) = NumLayers
        /\ \A i \in Layers :
              LET b == heap[last.ref][i]
                  v == last.values[i + 1]
              IN  /\ v = ArcTanh(Clip(Normalized(b), 0 - ClipLimit, ClipLimit))
                  /\ Abs(v) <= ArcTanh(ClipLimit)
                  /\ ArcTanh(ClipLimit) < Infinity
                  /\ (b = 0) => v = ArcTanh(0 - ClipLimit)
                  /\ (b = ByteMax) => v = ArcTanh(ClipLimit)

C20_Witness ==
    /\ last.op = "decode"
    /\ Len(input) < NumLayers
    /\ heap[last.ref][0] = ByteMax
    /\ heap[last.ref][NumLayers - 1] = 0
    /\ last.values[1] = 0 - last.values[NumLayers]

\* C21: encode, decode and measure_fidelity never fail, whatever the length
\* of the feature vector (0 and more than 16 included), and measure_fidelity
\* takes its mean and its max over the first min(16, len(features))
\* positions.
C21_CodecNeverFails ==
    (last.op \in {"encode", "decode", "measure_fidelity"}) =>
        /\ last.err = "none"
        /\ (last.op = "measure_fidelity") =>
              /\ last.report.count = Min(NumLayers, Len(input))
              /\ last.report.mean_error = last.report.total \div last.report.count
              /\ last.report.max_error <= last.report.total

\* C22: every state held after any sequence of vacuum, neutral, with_layer,
\* encode and apply calls has exactly the 16 slots 0..15, each holding a byte
\* in 0..255.
C22_StatesAreSixteenBytes ==
    \A id \in Held :
        /\ DOMAIN heap[id] = Layers
        /\ \A i \in Layers : heap[id][i] \in Bytes

C22_Witness ==
    /\ ApplyCalled
    /\ last.err = "none"
    /\ heap[last.ref] = VacuumState
    /\ last.recipe = Emergence
    /\ NeutralByte + (heap[last.ref][11] - NeutralByte) * 2 < 0
    /\ Returned[11] = 0

\* the state the callers were handed, as it was before any of them ran
Original == MlEncode(config, input).val

\* C24: while callers derive new states from a shared state by with_layer
\* and apply, in any interleaving of their steps, the shared state keeps
\* its slot values and every value a reader has read from it is the value
\* of the state as it was before the derivations started.
C24_ReadersSeeTheOriginal ==
    /\ heap[Shared] = Original
    /\ \A k \in 1 .. Len(threads["reader"].seen) :
          threads["reader"].seen[k] = LinearDecode(Original)[k]

C24_Witness ==
    /\ threads["reader"].pc = "loop"
    /\ Len(threads["reader"].seen) = 8
    /\ threads["applier"].pc = "loop"
    /\ ~threads["applier"].aliased
    /\ threads["applier"].result[3] # Original[3]
    /\ threads["setter"].pc = "done"
    /\ threads["setter"].result[3] # Original[3]

\* a recipe that names layer 3 twice
RepeatedRecipe ==
    << <<3, "power_2">>, <<NumLayers, "identity">>, <<3, "power_2">> >>

\* C25: apply folds the recipe left to right: for every split of the recipe
\* into r1 ++ r2, apply(s, r1 ++ r2) is apply(apply(s, r1), r2) (a failure
\* in either part is the failure of the whole), so a layer named twice gets
\* the second transform applied to the result of the first.
C25_ApplyFoldsLeftToRight ==
    ApplyCalled =>
        /\ \A k \in 0 .. Len(last.recipe) :
              LET r1 == SubSeq(last.recipe, 1, k)
                  r2 == SubSeq(last.recipe, k + 1, Len(last.recipe))
                  a == Apply(heap[last.ref], r1)
              IN  IF a.ok
                  THEN /\ Apply(a.val, r2).err = last.err
                       /\ (last.err = "none") => Apply(a.val, r2).val = Returned
                  ELSE last.err = a.err
        /\ (last.recipe = RepeatedRecipe /\ last.err = "none") =>
              Returned[3] = Pow(Pow(heap[last.ref][3], 2), 2)

C25_Witness ==
    /\ ApplyCalled
    /\ last.err = "none"
    /\ last.recipe = RepeatedRecipe
    /\ Returned[3] = Pow(Pow(heap[last.ref][3], 2), 2)
    /\ Returned[3] # Pow(heap[last.ref][3], 2)

\* C26: encoding the decode of a state gives the state back in all 16
\* slots, for every byte value 0..255, the bytes 0 and 255 that decode
\* clamps included.
C26_ReencodeRestoresState ==
    (last.op = "reencode") =>
        /\ last.err = "none"
        /\ Returned = heap[last.ref]

\* the transform names apply's chain tests for
KnownTransforms == {"identity", "power_1", "power_2", "power_3", "mix_neutral"}

\* a recipe with every name outside the chain replaced by "identity"
AsIdentity(recipe) ==
    [k \in 1 .. Len(recipe) |->
        IF recipe[k][2] \in KnownTransforms THEN recipe[k]
        ELSE <<recipe[k][1], "identity">>]

\* C27: a recipe entry with an index in 0..15 and a transform name apply
\* does not know does not fail and acts as identity: the slot keeps its
\* byte, and apply returns what it returns for the recipe with that name
\* replaced by identity.
C27_UnknownTransformIsIdentity ==
    (ApplyCalled /\ \E k \in 1 .. Len(last.recipe) :
                       last.recipe[k][2] \notin KnownTransforms) =>
        /\ (\A k \in 1 .. Len(last.recipe) : last.recipe[k][1] \in Layers) =>
              last.err = "none"
        /\ (last.err = "none") =>
              /\ Ok(Returned) = Apply(heap[last.ref], AsIdentity(last.recipe))
              /\ \A k \in 1 .. Len(last.recipe) :
                    (/\ last.recipe[k][2] \notin KnownTransforms
                     /\ last.recipe[k][1] \in Layers
                     /\ Cardinality({j \in 1 .. Len(last.recipe) :
                                        last.recipe[j][1] = last.recipe[k][1]}) = 1)
                    => Returned[last.recipe[k][1]] = heap[last.ref][last.recipe[k][1]]

C27_Witness ==
    /\ ApplyCalled
    /\ last.err = "none"
    /\ last.recipe[1] = <<5, "power_4">>
    /\ Returned[5] = heap[last.ref][5]
    /\ Returned[5] # NeutralByte
    /\ Returned[6] # heap[last.ref][6]

\* C28: for every feature vector the inline ByteSilMapper.to_sil_state
\* returns the state EnhancedByteSilMapper("pure").to_sil_state returns,
\* which is LinearEncoder.encode's, and for every state
\* ByteSilMapper.from_sil_state returns the values of LinearEncoder.decode.
C28_InlineMapperAgrees ==
    /\ (last.op = "to_sil_state") =>
          /\ last.err = "none"
          /\ Ok(Returned) = EnhancedToSilState("pure", input)
          /\ Ok(Returned) = LinearEncode(input)
    /\ (last.op = "from_sil_state") =>
          /\ last.values = LinearDecode(heap[last.ref])
          /\ last.values = EnhancedFromSilState("pure", heap[last.ref])

C28_Witness ==
    /\ last.op = "to_sil_state"
    /\ Len(input) > NumLayers
    /\ Returned = Plain
    /\ Returned[0] = ByteMax
    /\ Returned[NumLayers - 1] # 0
    /\ Returned[NumLayers - 1] # NeutralByte

\* C29: the pipeline's measure_fidelity returns the plain encoder's mean and
\* max error whatever the configuration, the same report under "pure",
\* "with_processing" and "full_semantic", and its fidelity_ok is true
\* exactly when mean_error is below 0.01.
C29_FidelityIgnoresConfig ==
    (last.op = "ml_measure_fidelity" /\ last.err = "none") =>
        /\ last.report.mean_error = MeasureFidelity(input).val.mean_error
        /\ last.report.max_error = MeasureFidelity(input).val.max_error
        /\ last.report.fidelity_ok = (last.report.mean_error < FidelityLimit)
        /\ \A c \in {"pure", "with_processing", "full_semantic"} :
              MlMeasureFidelity(c, input) = Ok(last.report)

C29_Witness ==
    /\ last.op = "ml_measure_fidelity"
    /\ last.err = "none"
    /\ config = "full_semantic"
    /\ MlEncode(config, input) # LinearEncode(input)
    /\ LinearDecode(MlEncode(config, input).val)[12] # LinearDecode(Plain)[12]
    /\ Len(input) >= 12
    /\ last.report.fidelity_ok

\* int((bounded + 1.0) * 127.5) for a feature value, before any clamp
RawByte(val) == ((Tanh(val) + Micro) * ByteMax) \div (2 * Micro)

\* C30: the byte encode (and the inline to_sil_state) stores is monotone in
\* the bounded feature value: a value bounded no higher gets a byte no
\* higher at the same slot; the bounded extremes -1 and +1 give the bytes 0
\* and 255, and the clamp to 0..255 never changes the computed byte.
C30_EncodingKeepsOrder ==
    (last.op \in {"encode", "to_sil_state"} /\ last.err = "none") =>
        \A i \in 0 .. (EncodeCount(input) - 1) :
            LET v == input[i + 1]
            IN  /\ RawByte(v) \in Bytes
                /\ Returned[i] = RawByte(v)
                /\ (Tanh(v) = 0 - Micro) => Returned[i] = 0
                /\ (Tanh(v) = Micro) => Returned[i] = ByteMax
                /\ \A a \in FeatureGrid :
                      /\ (Tanh(a) <= Tanh(v)) => EncodeByte(a) <= Returned[i]
                      /\ (Tanh(a) >= Tanh(v)) => EncodeByte(a) >= Returned[i]

C30_Witness ==
    /\ EncodeDone
    /\ Len(input) >= 2
    /\ Tanh(input[1]) = Micro
    /\ Tanh(input[2]) = 0 - Micro
    /\ Returned[0] = ByteMax
    /\ Returned[1] = 0

====
